---- MODULE Spec2Model ----
(***************************************************************************)
(* A model of net_drawer.py: the command-line entry point main() and the   *)
(* graph builder GetPydotGraph() with its helpers.                         *)
(*                                                                         *)
(* Python strings are sequences of one-character strings, so that string   *)
(* formatting ('%d', str, +) and json.dumps are computed, not assumed.     *)
(* A pydot.Node is the record [name, label, style]; pydot.Dot is the       *)
(* record of its add_node() calls and its add_edge() calls, in call order  *)
(* (pydot appends on every call, and an Edge keeps its end points' names). *)
(***************************************************************************)
EXTENDS Integers, Sequences, FiniteSets, TLC

VARIABLES
    args,                 \* argparse result: [marked, marked_list]
    model,                \* model.graph.node, the operators of the input file
    pc,                   \* position in main() / GetPydotGraph()
    failure,              \* the exception that ended the run, "" if none
    io,                   \* file operations performed so far
    marked_list,          \* the marked_list handed to GetPydotGraph
    default_marked_list,  \* the default-argument list object of GetPydotGraph
    pydot_graph,          \* pydot.Dot under construction: [nodes, edges]
    pydot_nodes,          \* dict: value name -> its current pydot.Node
    pydot_node_counts,    \* defaultdict(int): value name -> occurrence counter
    op_id,                \* index of the operator being processed
    pos,                  \* index in op.input / op.output being processed
    op_node,              \* the pydot.Node of the operator being processed
    calls,                \* number of GetPydotGraph invocations started
    prev_graph            \* the graph returned by the previous invocation

vars == <<args, model, pc, failure, io, marked_list, default_marked_list,
          pydot_graph, pydot_nodes, pydot_node_counts, op_id, pos, op_node,
          calls, prev_graph>>

-----------------------------------------------------------------------------
(* Bounds of the model *)

MaxOps == 3        \* operators in a graph of the wiring domain
MaxLong == 4       \* operators in a graph of the re-writing domain
MaxListLen == 3    \* characters of --marked_list
MaxCalls == 2      \* invocations of GetPydotGraph in one process

-----------------------------------------------------------------------------
(* Characters and string helpers *)

Q == "\""
BS == "\\"
NL == "\n"

Digits == <<"0", "1", "2", "3", "4", "5", "6", "7", "8", "9">>

\* str(n) / '%d' % n for n >= 0
RECURSIVE Str(_)
Str(n) == IF n < 10 THEN <<Digits[n + 1]>>
          ELSE Str(n \div 10) \o <<Digits[(n % 10) + 1]>>

RECURSIVE EscapeChars(_)
EscapeChars(s) ==
    IF s = <<>> THEN <<>>
    ELSE (CASE Head(s) = Q  -> <<BS, Q>>
            [] Head(s) = BS -> <<BS, BS>>
            [] Head(s) = NL -> <<BS, "n">>
            [] OTHER        -> <<Head(s)>>) \o EscapeChars(Tail(s))

\* json.dumps(name): the string in double quotes, with quote, backslash and
\* newline escaped (the other characters of the model's alphabet are kept)
_escape_label(name) == <<Q>> \o EscapeChars(name) \o <<Q>>

-----------------------------------------------------------------------------
(* Styles *)

OP_STYLE == "OP_STYLE"
OP_STYLE_1 == "OP_STYLE_1"
BLOB_STYLE == "BLOB_STYLE"

\* pydot.Node(name, label=label, **style); label <<>> when none is given
Node(name, label, style) == [name |-> name, label |-> label, style |-> style]

-----------------------------------------------------------------------------
(* GetOpNodeProducer / ReallyGetOpNode *)

S_OP == <<" ", "(", "o", "p", "#">>
S_INPUT == <<NL, " ", "i", "n", "p", "u", "t">>
S_OUTPUT == <<NL, " ", "o", "u", "t", "p", "u", "t">>

\* the lines appended for names[i..], each prefixed with its 0-based index
RECURSIVE IOLines(_, _, _)
IOLines(prefix, names, i) ==
    IF i > Len(names) THEN <<>>
    ELSE prefix \o Str(i - 1) \o <<" ">> \o names[i] \o IOLines(prefix, names, i + 1)

NodeName(op, id) ==
    (IF op.name # <<>>
        THEN op.name \o <<"/">> \o op.op_type \o S_OP \o Str(id) \o <<")">>
        ELSE op.op_type \o S_OP \o Str(id) \o <<")">>)
    \o IOLines(S_INPUT, op.input, 1)
    \o IOLines(S_OUTPUT, op.output, 1)

ReallyGetOpNode(op, id, style) == Node(NodeName(op, id), <<>>, style)

-----------------------------------------------------------------------------
(* main(): --marked_list parsing *)

\* s.split('_')
RECURSIVE Split(_)
Split(s) ==
    IF \A k \in 1..Len(s) : s[k] # "_" THEN <<s>>
    ELSE LET k == CHOOSE k \in 1..Len(s) :
                      s[k] = "_" /\ \A j \in 1..(k - 1) : s[j] # "_"
         IN  <<SubSeq(s, 1, k - 1)>> \o Split(SubSeq(s, k + 1, Len(s)))

IsDigit(c) == \E d \in 1..10 : Digits[d] = c
DigitVal(c) == (CHOOSE d \in 1..10 : Digits[d] = c) - 1

RECURSIVE DecVal(_)
DecVal(ds) == IF ds = <<>> THEN 0
              ELSE 10 * DecVal(SubSeq(ds, 1, Len(ds) - 1)) + DigitVal(ds[Len(ds)])

\* whether int(tok) succeeds: an optional sign, then at least one digit
IntOk(tok) ==
    LET ds == IF tok # <<>> /\ tok[1] \in {"-", "+"} THEN Tail(tok) ELSE tok
    IN  ds # <<>> /\ \A k \in 1..Len(ds) : IsDigit(ds[k])

\* int(tok), for a token that int() accepts
IntOf(tok) ==
    IF tok[1] = "-" THEN 0 - DecVal(Tail(tok))
    ELSE IF tok[1] = "+" THEN DecVal(Tail(tok))
    ELSE DecVal(tok)

\* a test for the documented value 1 in place of the truth test
MarkedIsOne(marked) == marked = 1

\* whether the branch that parses --marked_list is taken: if args.marked
MarkedActive(marked) == marked # 0

\* [int(e) for e in args.marked_list.split('_')] raises ValueError
ParseRaises(s) == \E k \in 1..Len(Split(s)) : ~IntOk(Split(s)[k])

ParseMarkedList(s) == [k \in 1..Len(Split(s)) |-> IntOf(Split(s)[k])]

-----------------------------------------------------------------------------
(* GetPydotGraph helpers *)

EmptyGraph == [nodes |-> <<>>, edges |-> <<>>]

\* counters that outlive the invocation
StaleCounts == pydot_node_counts

\* pydot_node_counts = defaultdict(int)
FreshCounts == <<>>

\* pydot_nodes = {}
FreshNodes == <<>>

\* pydot_node_counts[name], a defaultdict read
Count(counts, name) == IF name \in DOMAIN counts THEN counts[name] ELSE 0

\* the defaultdict after reading pydot_node_counts[name]
Touch(counts, name) ==
    IF name \in DOMAIN counts THEN counts ELSE counts @@ (name :> 0)

\* indices of the list taken as 1-based
InListOneBased(id, list) == \E k \in 1..Len(list) : list[k] = id + 1

\* op_id in marked_list
InList(id, list) == \E k \in 1..Len(list) : list[k] = id

OpStyle(id, list) == IF InList(id, list) THEN OP_STYLE_1 ELSE OP_STYLE

\* pydot.Node(_escape_label(name + str(count)), label=_escape_label(name), **BLOB_STYLE)
ValueNode(name, count) ==
    Node(_escape_label(name \o Str(count)), _escape_label(name), BLOB_STYLE)

\* a read that advances the counter of a name that has a node
CountsBumpedOnInput(counts, nodes, name) ==
    IF name \in DOMAIN nodes
        THEN [Touch(counts, name) EXCEPT ![name] = @ + 1]
        ELSE Touch(counts, name)

\* the counters after op.input[pos] was processed
CountsAfterInput(counts, nodes, name) ==
    IF name \notin DOMAIN nodes THEN Touch(counts, name) ELSE counts

\* a write that never advances the counter
CountsNeverIncremented(counts, nodes, name) == Touch(counts, name)

\* the counters after the increment of an output name
CountsAfterOutput(counts, nodes, name) ==
    IF name \in DOMAIN nodes
        THEN [Touch(counts, name) EXCEPT ![name] = @ + 1]
        ELSE Touch(counts, name)

\* dict assignment pydot_nodes[name] = node
Assign(nodes, name, node) ==
    [n \in (DOMAIN nodes) \cup {name} |-> IF n = name THEN node ELSE nodes[n]]

\* a write that keeps the first node of a name as its current node
NodesKeepFirst(nodes, name, node) ==
    IF name \in DOMAIN nodes THEN nodes ELSE Assign(nodes, name, node)

\* pydot_nodes[output_name] = output_node
NodesAfterOutput(nodes, name, node) == Assign(nodes, name, node)

AddNode(graph, node) == [graph EXCEPT !.nodes = Append(@, node)]

\* pydot.Edge(src, dst) keeps the names of its end points
AddEdge(graph, src, dst) ==
    [graph EXCEPT !.edges = Append(@, [src |-> src.name, dst |-> dst.name])]

\* where the loops go after position p of phase ph of operator id
NextPc(ph, id, p) ==
    LET op == model[id + 1]
    IN  IF ph = "input" /\ p < Len(op.input) THEN "input"
        ELSE IF ph = "input" /\ Len(op.output) > 0 THEN "output"
        ELSE IF ph = "output" /\ p < Len(op.output) THEN "output"
        ELSE IF id + 1 < Len(model) THEN "op"
        ELSE "returned"

-----------------------------------------------------------------------------
(* Inputs: the operator sequences and command lines the runs are drawn from *)

Op(name, type, input, output) ==
    [name |-> name, op_type |-> type, input |-> input, output |-> output]

a == <<"a">>
b == <<"b">>
a1 == <<"a", "1">>
T == <<"T">>

RECURSIVE SeqsUpTo(_, _)
SeqsUpTo(S, n) ==
    IF n = 0 THEN {<<>>}
    ELSE LET shorter == SeqsUpTo(S, n - 1)
         IN  shorter \cup {Append(s, x) : s \in shorter, x \in S}

\* wiring domain: unnamed operators of one type reading and writing a and b
WiringOps ==
    {Op(<<>>, T, <<>>, <<>>),
     Op(<<>>, T, <<>>, <<a>>),
     Op(<<>>, T, <<a>>, <<a>>),
     Op(<<>>, T, <<a>>, <<b, b>>),
     Op(<<>>, T, <<a, a>>, <<b>>),
     Op(<<>>, T, <<a, b>>, <<>>),
     Op(<<>>, T, <<a, b>>, <<a>>)}

WiringGraphs == SeqsUpTo(WiringOps, MaxOps)

\* re-writing domain: a value written again and again, next to a value
\* whose name is that value's name followed by a digit
LongOps == {Op(<<>>, T, <<a1>>, <<a, a, a>>), Op(<<"n">>, T, <<a>>, <<a, a, a>>)}

LongGraphs == SeqsUpTo(LongOps, MaxLong)

\* free text with structural characters: a quote in a type and in a value
\* name, and a type and an input name that hold the text of a label
QuoteGraph ==
    <<Op(<<>>, <<"A", Q>>, <<<<"x", Q, "y">>>>, <<<<"z", BS>>>>)>>

LabelTextGraph ==
    <<Op(<<>>, <<"A">>, <<<<"B">> \o S_OP \o <<"1", ")">>>>, <<>>),
      Op(<<>>, <<"A">> \o S_OP \o <<"0", ")">> \o S_INPUT \o <<"0", " ", "B">>,
         <<>>, <<>>)>>

\* command-line domain: three operators, every --marked_list up to MaxListLen
MarkedGraph ==
    <<Op(<<>>, T, <<>>, <<a>>), Op(<<"n">>, T, <<a>>, <<b>>), Op(<<>>, T, <<b>>, <<>>)>>

ListChars == {"0", "1", "2", "_", "x", "-"}

MarkedValues == {0, 1, 2}

NoMarks == [marked |-> 0, marked_list |-> <<>>]

Inputs ==
    {<<g, NoMarks>> : g \in WiringGraphs \cup LongGraphs \cup {QuoteGraph, LabelTextGraph}}
    \cup {<<MarkedGraph, [marked |-> m, marked_list |-> l]>> :
             m \in MarkedValues, l \in SeqsUpTo(ListChars, MaxListLen)}

-----------------------------------------------------------------------------
(* The state machine *)

Init ==
    /\ \E in \in Inputs : model = in[1] /\ args = in[2]
    /\ pc = "parse_args"
    /\ failure = ""
    /\ io = <<>>
    /\ marked_list = <<>>
    /\ default_marked_list = <<>>
    /\ pydot_graph = EmptyGraph
    /\ pydot_nodes = <<>>
    /\ pydot_node_counts = <<>>
    /\ op_id = 0
    /\ pos = 0
    /\ op_node = Node(<<>>, <<>>, OP_STYLE)
    /\ calls = 0
    /\ prev_graph = EmptyGraph

builder == <<pydot_graph, pydot_nodes, pydot_node_counts, op_id, pos, op_node>>

\* main(): args = parser.parse_args() and the marked_list branch
ParseArgs ==
    /\ pc = "parse_args"
    /\ IF MarkedActive(args.marked)
          THEN IF ParseRaises(args.marked_list)
                  THEN /\ pc' = "failed"
                       /\ failure' = "ValueError"
                       /\ UNCHANGED marked_list
                  ELSE /\ pc' = "load"
                       /\ marked_list' = ParseMarkedList(args.marked_list)
                       /\ UNCHANGED failure
          ELSE /\ pc' = "load"
               /\ marked_list' = <<>>
               /\ UNCHANGED failure
    /\ UNCHANGED <<args, model, io, default_marked_list, builder, calls, prev_graph>>

\* main(): open(args.input, 'rb'), fid.read(), model.ParseFromString(content)
LoadModel ==
    /\ pc = "load"
    /\ \/ /\ io' = Append(io, "open_failed")
          /\ pc' = "failed"
          /\ failure' = "IOError"
       \/ /\ io' = io \o <<"open", "read">>
          /\ pc' = "failed"
          /\ failure' = "DecodeError"
       \/ /\ io' = io \o <<"open", "read">>
          /\ pc' = "call"
          /\ UNCHANGED failure
    /\ UNCHANGED <<args, model, marked_list, default_marked_list, builder, calls,
                   prev_graph>>

\* GetPydotGraph: entry, up to the loop over graph.node
Call ==
    /\ pc = "call"
    /\ pydot_graph' = EmptyGraph
    /\ pydot_nodes' = FreshNodes
    /\ pydot_node_counts' = FreshCounts
    /\ op_id' = 0
    /\ pos' = 0
    /\ calls' = calls + 1
    /\ pc' = IF Len(model) = 0 THEN "returned" ELSE "op"
    /\ UNCHANGED <<args, model, failure, io, marked_list, default_marked_list,
                   op_node, prev_graph>>

\* GetPydotGraph: the operator's node is produced and added
OpNode ==
    /\ pc = "op"
    /\ LET op == model[op_id + 1]
           node == ReallyGetOpNode(op, op_id, OpStyle(op_id, marked_list))
       IN  /\ op_node' = node
           /\ pydot_graph' = AddNode(pydot_graph, node)
           /\ pos' = 0
           /\ pc' = IF Len(op.input) > 0 THEN "input" ELSE NextPc("input", op_id, 0)
    /\ op_id' = IF pc' = "op" THEN op_id + 1 ELSE op_id
    /\ UNCHANGED <<args, model, failure, io, marked_list, default_marked_list,
                   pydot_nodes, pydot_node_counts, calls, prev_graph>>

\* the node op.input[pos] is wired from
InputNode(counts, nodes, name) ==
    IF name \notin DOMAIN nodes THEN ValueNode(name, Count(counts, name))
    ELSE nodes[name]

\* GetPydotGraph: one pass of the loop over op.input
InputStep ==
    /\ pc = "input"
    /\ LET name == model[op_id + 1].input[pos + 1]
           input_node == InputNode(pydot_node_counts, pydot_nodes, name)
       IN  /\ pydot_node_counts' = CountsAfterInput(pydot_node_counts, pydot_nodes, name)
           /\ pydot_nodes' = IF name \notin DOMAIN pydot_nodes
                                THEN Assign(pydot_nodes, name, input_node)
                                ELSE pydot_nodes
           /\ pydot_graph' = AddEdge(AddNode(pydot_graph, input_node), input_node, op_node)
    /\ pc' = NextPc("input", op_id, pos + 1)
    /\ pos' = IF pc' = "input" THEN pos + 1 ELSE 0
    /\ op_id' = IF pc' = "op" THEN op_id + 1 ELSE op_id
    /\ UNCHANGED <<args, model, failure, io, marked_list, default_marked_list,
                   op_node, calls, prev_graph>>

\* the node created for op.output[pos]
OutputNode(counts, nodes, name) ==
    ValueNode(name, Count(CountsAfterOutput(counts, nodes, name), name))

\* GetPydotGraph: one pass of the loop over op.output
OutputStep ==
    /\ pc = "output"
    /\ LET name == model[op_id + 1].output[pos + 1]
           output_node == OutputNode(pydot_node_counts, pydot_nodes, name)
       IN  /\ pydot_node_counts' = CountsAfterOutput(pydot_node_counts, pydot_nodes, name)
           /\ pydot_nodes' = NodesAfterOutput(pydot_nodes, name, output_node)
           /\ pydot_graph' = AddEdge(AddNode(pydot_graph, output_node), op_node, output_node)
    /\ pc' = NextPc("output", op_id, pos + 1)
    /\ pos' = IF pc' = "output" THEN pos + 1 ELSE 0
    /\ op_id' = IF pc' = "op" THEN op_id + 1 ELSE op_id
    /\ UNCHANGED <<args, model, failure, io, marked_list, default_marked_list,
                   op_node, calls, prev_graph>>

\* main(): pydot_graph.write_dot(args.output)
WriteDot ==
    /\ pc = "returned"
    /\ \/ /\ io' = Append(io, "write")
          /\ pc' = "done"
          /\ UNCHANGED failure
       \/ /\ io' = Append(io, "write_failed")
          /\ pc' = "failed"
          /\ failure' = "IOError"
    /\ UNCHANGED <<args, model, marked_list, default_marked_list, builder, calls,
                   prev_graph>>

\* GetPydotGraph is invoked again on the same graph and marked_list; a caller
\* with no operators to mark may leave marked_list to its default
CallAgain ==
    /\ pc = "returned"
    /\ calls < MaxCalls
    /\ \/ UNCHANGED marked_list
       \/ /\ marked_list = <<>>
          /\ marked_list' = default_marked_list
    /\ prev_graph' = pydot_graph
    /\ pc' = "call"
    /\ UNCHANGED <<args, model, failure, io, default_marked_list, builder, calls>>

Next ==
    \/ ParseArgs
    \/ LoadModel
    \/ Call
    \/ OpNode
    \/ InputStep
    \/ OutputStep
    \/ WriteDot
    \/ CallAgain

Spec == Init /\ [][Next]_vars

-----------------------------------------------------------------------------
(* Vocabulary of the properties *)

\* the references of one operator to value names, in processing order
OpRefs(op, i) ==
    [k \in 1..Len(op.input) |-> [op |-> i, kind |-> "in", name |-> op.input[k]]]
    \o [k \in 1..Len(op.output) |-> [op |-> i, kind |-> "out", name |-> op.output[k]]]

\* the references of the graph's first n operators
RECURSIVE RefsUpTo(_)
RefsUpTo(n) == IF n = 0 THEN <<>> ELSE RefsUpTo(n - 1) \o OpRefs(model[n], n - 1)

Refs == RefsUpTo(Len(model))

\* every reference adds one edge: the references processed so far
Processed == 1..Len(pydot_graph.edges)

\* the node the p-th reference added to the graph (after its operator's node)
RefNode(p) == pydot_graph.nodes[p + Refs[p].op + 1]

\* the value end of the edge the p-th reference added
ValueEnd(p) ==
    IF Refs[p].kind = "in" THEN pydot_graph.edges[p].src ELSE pydot_graph.edges[p].dst

ValueNodes == SelectSeq(pydot_graph.nodes, LAMBDA n : n.style = BLOB_STYLE)

OpNodes == SelectSeq(pydot_graph.nodes, LAMBDA n : n.style # BLOB_STYLE)

\* every value name of the graph
Names ==
    UNION {{model[i].input[k] : k \in DOMAIN model[i].input}
           \cup {model[i].output[k] : k \in DOMAIN model[i].output} : i \in DOMAIN model}

\* the tokens of an underscore-delimited list: its maximal stretches without "_"
TokenEnd(s, x) ==
    IF \E j \in x..Len(s) : s[j] = "_"
        THEN CHOOSE j \in x..Len(s) : s[j] = "_" /\ \A i \in x..(j - 1) : s[i] # "_"
        ELSE Len(s) + 1

Tokens(s) ==
    {SubSeq(s, x, TokenEnd(s, x) - 1) :
        x \in {1} \cup {k + 1 : k \in {j \in DOMAIN s : s[j] = "_"}}}

\* the list names an operator index
Listed(i, s) == \E t \in Tokens(s) : IntOk(t) /\ IntOf(t) = i

\* the list holds a token that is not an integer
HasNonIntToken(s) == \E t \in Tokens(s) : ~IntOk(t)

\* the text of a label is a quoted string that its content cannot end early
RECURSIVE Closed(_, _)
Closed(s, i) ==
    IF i >= Len(s) THEN i = Len(s)
    ELSE IF s[i] = BS THEN Closed(s, i + 2)
    ELSE IF s[i] \in {Q, NL} THEN FALSE
    ELSE Closed(s, i + 1)

Escaped(s) == Len(s) >= 2 /\ s[1] = Q /\ s[Len(s)] = Q /\ Closed(s, 2)

\* the text a node shows: its label, or its name when it has no label
Shown(node) == IF node.label # <<>> THEN node.label ELSE node.name

-----------------------------------------------------------------------------
(* C1: the graph holds exactly one value node for each (name, occurrence)   *)
(* pair that was read or written: every reference's node is in the graph    *)
(* and no value node was added to the graph more than once.                 *)
C1_OneNodePerPair ==
    /\ \A p \in Processed : RefNode(p).name = ValueEnd(p)
    /\ \A i, j \in DOMAIN ValueNodes : i # j => ValueNodes[i].name # ValueNodes[j].name

(* C2: a write of a name creates a value node whose identity differs from   *)
(* the identity of every earlier node of that name, and all nodes of the    *)
(* name carry the same display label, the escaped plain name.               *)
C2_RewriteFreshIdentity ==
    LET R == Refs
        G == pydot_graph
        node(p) == G.nodes[p + R[p].op + 1]
        end(p) == IF R[p].kind = "in" THEN G.edges[p].src ELSE G.edges[p].dst
    IN  \A q \in 1..Len(G.edges) : \A p \in 1..(q - 1) :
            (R[q].kind = "out" /\ R[p].name = R[q].name) =>
                /\ end(p) # end(q)
                /\ node(q).name = end(q)
                /\ node(p).label = node(q).label
                /\ node(q).label = _escape_label(R[q].name)

\* a name was written by two operators and twice by one operator
C2_Witness ==
    /\ pc = "returned"
    /\ \E q \in Processed : \E p \in 1..(q - 1) :
        /\ Refs[p].kind = "out" /\ Refs[q].kind = "out"
        /\ Refs[p].name = Refs[q].name /\ Refs[p].op # Refs[q].op
    /\ \E q \in Processed : \E p \in 1..(q - 1) :
        /\ Refs[p].kind = "out" /\ Refs[q].kind = "out"
        /\ Refs[p].name = Refs[q].name /\ Refs[p].op = Refs[q].op

\* the writes, among the references R, of name n by operators before operator i
WritesBefore(R, n, i) ==
    {q \in DOMAIN R : R[q].kind = "out" /\ R[q].name = n /\ R[q].op < i}

Last(S) == CHOOSE q \in S : \A r \in S : r <= q

(* C3: the input edge of operator i for name n starts at the node created   *)
(* by the most recent write of n by an operator before i, or at the         *)
(* occurrence-0 node of n when no operator before i wrote n; it ends at the *)
(* node of operator i.                                                      *)
C3_EdgeGeneration ==
    LET R == Refs
        E == pydot_graph.edges
        end(p) == IF R[p].kind = "in" THEN E[p].src ELSE E[p].dst
    IN  \A p \in 1..Len(E) :
            R[p].kind = "in" =>
                LET n == R[p].name
                    i == R[p].op
                    W == WritesBefore(R, n, i)
                IN  /\ E[p].dst = NodeName(model[i + 1], i)
                    /\ IF W = {} THEN E[p].src = _escape_label(n \o <<"0">>)
                       ELSE /\ E[p].src = E[Last(W)].dst
                            /\ (Last(W) > 1 /\ R[Last(W) - 1].name = n)
                                  => E[p].src # end(Last(W) - 1)

\* an operator consumed a twice-written name, produced it again, and a later
\* operator consumed that
C3_Witness ==
    /\ pc = "returned"
    /\ \E p, q, r \in Processed :
        /\ p < q /\ q < r
        /\ Refs[p].kind = "in" /\ Refs[q].kind = "out" /\ Refs[r].kind = "in"
        /\ Refs[p].name = Refs[q].name /\ Refs[q].name = Refs[r].name
        /\ Refs[p].op = Refs[q].op /\ Refs[q].op < Refs[r].op
        /\ WritesBefore(Refs, Refs[p].name, Refs[p].op) # {}

(* C4 as amended: an operator at index i has the highlighted style if and   *)
(* only if --marked is non-zero and i is one of the integers of             *)
(* --marked_list; every other operator has the default style.               *)
C4_HighlightIffNonZero ==
    LET N == OpNodes
    IN  \A k \in DOMAIN N :
            N[k].style = IF args.marked # 0 /\ Listed(k - 1, args.marked_list)
                            THEN OP_STYLE_1 ELSE OP_STYLE

(* C4 as stated: highlighted if and only if --marked is 1 and i is listed.  *)
C4_HighlightIffMarkedIsOne ==
    LET N == OpNodes
    IN  \A k \in DOMAIN N :
            N[k].style = IF args.marked = 1 /\ Listed(k - 1, args.marked_list)
                            THEN OP_STYLE_1 ELSE OP_STYLE

\* --marked 1 --marked_list 0_2 with three operators
C4_Witness ==
    /\ pc = "returned"
    /\ args.marked = 1
    /\ args.marked_list = <<"0", "_", "2">>
    /\ Len(OpNodes) = 3
    /\ OpNodes[1].style = OP_STYLE_1
    /\ OpNodes[2].style = OP_STYLE
    /\ OpNodes[3].style = OP_STYLE_1

(* C5: an invocation carries nothing over from earlier ones: the default    *)
(* highlight list stays empty, an invocation starts from no value nodes and *)
(* no counters, and the graph returned for the same arguments is the graph  *)
(* the previous invocation returned.                                        *)
C5_NoCarryOver ==
    /\ default_marked_list = <<>>
    /\ (pc = "op" /\ op_id = 0) =>
           /\ pydot_graph = EmptyGraph
           /\ pydot_nodes = <<>>
           /\ \A n \in Names : Count(pydot_node_counts, n) = 0
    /\ (pc = "returned" /\ calls >= 2) => pydot_graph = prev_graph

\* a second invocation returned, on a graph that re-writes a name
C5_Witness ==
    /\ pc = "returned"
    /\ calls = 2
    /\ \E n \in Names : Count(pydot_node_counts, n) >= 1
    /\ Len(pydot_graph.edges) >= 3

(* C6: the graph holds one operator node per operator processed, and the    *)
(* labels of operators at different indices differ.                         *)
C6_OpLabelsDistinct ==
    /\ pc = "returned" => Len(OpNodes) = Len(model)
    /\ \A i, j \in DOMAIN OpNodes : i # j => OpNodes[i].name # OpNodes[j].name

HasQuote(s) == \E k \in DOMAIN s : s[k] = Q

(* C7: the text of every node inserted into the graph, of operator nodes as *)
(* of value nodes, went through the label-escaping helper: a text that      *)
(* holds a quote is in the helper's escaped form, so that no quote of an    *)
(* operator name, operator type or value name reaches the graph unescaped.  *)
C7_NoBareQuote ==
    \A k \in DOMAIN pydot_graph.nodes :
        HasQuote(Shown(pydot_graph.nodes[k])) => Escaped(Shown(pydot_graph.nodes[k]))

(* C8 as amended: when --marked is non-zero, a --marked_list with a token   *)
(* that is not an integer ends the run with a ValueError once the arguments *)
(* are handled: no file was opened and no graph was built or written.       *)
C8_BadTokenFatalWhenActive ==
    (pc # "parse_args" /\ args.marked # 0 /\ HasNonIntToken(args.marked_list)) =>
        /\ pc = "failed"
        /\ failure = "ValueError"
        /\ io = <<>>
        /\ calls = 0
        /\ pydot_graph = EmptyGraph

(* C8 as stated: a --marked_list given with a token that is not an integer  *)
(* ends the run the same way for every value of the other options.          *)
C8_BadTokenFatalAlways ==
    (pc # "parse_args" /\ args.marked_list # <<>> /\ HasNonIntToken(args.marked_list)) =>
        /\ pc = "failed"
        /\ failure = "ValueError"
        /\ io = <<>>
        /\ calls = 0
        /\ pydot_graph = EmptyGraph

\* --marked 2 --marked_list 0_x failed
C8_Witness ==
    /\ pc = "failed"
    /\ failure = "ValueError"
    /\ args.marked = 2
    /\ args.marked_list = <<"0", "_", "x">>

\* the name the output loop is at
OutputName == model[op_id + 1].output[pos + 1]

(* C9: processing an input leaves every counter unchanged and every         *)
(* existing current node unchanged, and can only add the node of the input  *)
(* name; processing an output changes the counter and the current node of   *)
(* the output name only; adding an operator's node changes neither.         *)
C9_IdentityChangesOnlyOnWrite ==
    [][/\ pc \in {"op", "input"} =>
            /\ \A n \in Names : Count(pydot_node_counts', n) = Count(pydot_node_counts, n)
            /\ \A n \in DOMAIN pydot_nodes :
                   n \in DOMAIN pydot_nodes' /\ pydot_nodes'[n] = pydot_nodes[n]
            /\ pc = "op" => pydot_nodes' = pydot_nodes
            /\ pc = "input" =>
                   DOMAIN pydot_nodes' \subseteq
                       DOMAIN pydot_nodes \cup {model[op_id + 1].input[pos + 1]}
       /\ pc = "output" =>
            \A n \in Names \ {OutputName} :
                /\ Count(pydot_node_counts', n) = Count(pydot_node_counts, n)
                /\ (n \in DOMAIN pydot_nodes') = (n \in DOMAIN pydot_nodes)
                /\ n \in DOMAIN pydot_nodes => pydot_nodes'[n] = pydot_nodes[n]
      ]_vars

\* an input read the node of a re-written name, while another name has a node
C9_Witness ==
    /\ pc = "returned"
    /\ \E p \in Processed :
        /\ Refs[p].kind = "in"
        /\ pydot_graph.edges[p].src = _escape_label(Refs[p].name \o <<"1">>)
        /\ \E n \in DOMAIN pydot_nodes : n # Refs[p].name

(* C10: value nodes that belong to different names never receive the same  *)
(* identity (nodes of one name at different occurrences are C2's).          *)
C10_IdentityInjective ==
    \A i, j \in DOMAIN ValueNodes :
        ValueNodes[i].name = ValueNodes[j].name => ValueNodes[i].label = ValueNodes[j].label

====
